---- MODULE Spec2Model ----
(***************************************************************************)
(* The GL shader cache of src/clients/simple-color-management-image.c      *)
(* (the gl-shader part of the file, lines 1438-1760): gl_shader_create,    *)
(* gl_shader_destroy, gl_shader_requirements_cmp and the debug-scope dump, *)
(* together with the GL driver objects they create and delete.             *)
(***************************************************************************)
EXTENDS Integers, Sequences, FiniteSets, TLC

(* ------------------------------ bounds -------------------------------- *)
\* Largest number of shaders the list is let grow to.
MaxEntries == 2
\* The number of different keys the renderer asks for.
MaxKeys == 2
\* Creation is attempted while fewer driver objects than this are leaked.
MaxLeaks == 1
\* The presentation clock runs from 0 to MaxClock (units of 2^30 milliseconds).
MaxClock == 2
\* The image client commits at most this many frames.
MaxCommits == 12
\* A program is dumped from at most this many sources,
MaxSources == 3
\* each of at most this many characters.
MaxChars == 2

(* --------------------------- program values --------------------------- *)
NULL == 0
GL_NONE == 0

SHADER_VARIANT_NONE == 0
SHADER_VARIANT_RGBX == 1
SHADER_VARIANT_RGBA == 2
SHADER_VARIANT_Y_U_V == 3
SHADER_VARIANT_Y_UV == 4
SHADER_VARIANT_Y_XUXV == 5
SHADER_VARIANT_XYUV == 6
SHADER_VARIANT_SOLID == 7
SHADER_VARIANT_EXTERNAL == 8

Variants == SHADER_VARIANT_NONE..SHADER_VARIANT_EXTERNAL

\* struct gl_shader_requirements: every value of the key.
Requirements == [variant : Variants, green_tint : BOOLEAN]

\* The keys the renderer asks for in the checked runs: RGBA without the tint,
\* RGBA with it, the next variant with it, the next variant without it, ...:
\* each key differs from the one before it in one field.
ReqOf(i) ==
    [variant |-> (SHADER_VARIANT_RGBA + ((i + 1) \div 2)) % (SHADER_VARIANT_EXTERNAL + 1),
     green_tint |-> (i % 4 \in {1, 2})]
ReqPool == {ReqOf(i) : i \in 0..(MaxKeys - 1)}

\* The fixed shader bodies of vertex-shader.h and fragment-shader.h.
vertex_shader == "<vertex.glsl>\n"
fragment_shader == "<fragment.glsl>\n"

\* The text glGetShaderInfoLog / glGetProgramInfoLog hand back.
InfoLog == "<driver info log>"

\* The switch has no case for the last variant of the enum.
gl_shader_texture_variant_to_string_short(v) ==
    CASE v = SHADER_VARIANT_NONE -> "SHADER_VARIANT_NONE"
      [] v = SHADER_VARIANT_RGBX -> "SHADER_VARIANT_RGBX"
      [] v = SHADER_VARIANT_RGBA -> "SHADER_VARIANT_RGBA"
      [] v = SHADER_VARIANT_Y_U_V -> "SHADER_VARIANT_Y_U_V"
      [] v = SHADER_VARIANT_Y_UV -> "SHADER_VARIANT_Y_UV"
      [] v = SHADER_VARIANT_Y_XUXV -> "SHADER_VARIANT_Y_XUXV"
      [] v = SHADER_VARIANT_XYUV -> "SHADER_VARIANT_XYUV"
      [] v = SHADER_VARIANT_SOLID -> "SHADER_VARIANT_SOLID"
      [] OTHER -> "!?!?"

gl_shader_texture_variant_to_string(v) ==
    CASE v = SHADER_VARIANT_NONE -> "SHADER_VARIANT_NONE"
      [] v = SHADER_VARIANT_RGBX -> "SHADER_VARIANT_RGBX"
      [] v = SHADER_VARIANT_RGBA -> "SHADER_VARIANT_RGBA"
      [] v = SHADER_VARIANT_Y_U_V -> "SHADER_VARIANT_Y_U_V"
      [] v = SHADER_VARIANT_Y_UV -> "SHADER_VARIANT_Y_UV"
      [] v = SHADER_VARIANT_Y_XUXV -> "SHADER_VARIANT_Y_XUXV"
      [] v = SHADER_VARIANT_XYUV -> "SHADER_VARIANT_XYUV"
      [] v = SHADER_VARIANT_SOLID -> "SHADER_VARIANT_SOLID"
      [] v = SHADER_VARIANT_EXTERNAL -> "SHADER_VARIANT_EXTERNAL"
      [] OTHER -> "!?!?"

\* The two signs are the wrong way round.
create_shader_description_string_flipped(req) ==
    gl_shader_texture_variant_to_string(req.variant) \o " "
        \o (IF req.green_tint THEN "-" ELSE "+") \o "green"

\* asprintf(&str, "%s %cgreen", name, green_tint ? '+' : '-')
create_shader_description_string(req) ==
    gl_shader_texture_variant_to_string(req.variant) \o " "
        \o (IF req.green_tint THEN "+" ELSE "-") \o "green"

\* The tint is left out of the configuration.
create_shader_config_string_notint(req) ==
    "#define DEF_GREEN_TINT false\n" \o "#define DEF_VARIANT "
        \o gl_shader_texture_variant_to_string(req.variant) \o "\n"

\* asprintf(&str, "#define DEF_GREEN_TINT %s\n#define DEF_VARIANT %s\n", ...)
create_shader_config_string(req) ==
    "#define DEF_GREEN_TINT " \o (IF req.green_tint THEN "true" ELSE "false")
        \o "\n" \o "#define DEF_VARIANT "
        \o gl_shader_texture_variant_to_string(req.variant) \o "\n"

\* The bytes memcmp walks over: the fields of the key in declaration order.
ReqBytes(r) == <<r.variant, IF r.green_tint THEN 1 ELSE 0>>

RECURSIVE memcmp(_, _, _)
memcmp(a, b, n) ==
    IF n = 0 \/ a = <<>> \/ b = <<>> THEN 0
    ELSE IF Head(a) # Head(b) THEN Head(a) - Head(b)
    ELSE memcmp(Tail(a), Tail(b), n - 1)

\* A comparison of the two pointers instead of the two keys.
gl_shader_requirements_cmp_ptr(a, b) == 1

\* The size of the first field is compared, not the size of the struct.
gl_shader_requirements_cmp_variant(a, b) ==
    memcmp(ReqBytes(a), ReqBytes(b), 1)

gl_shader_requirements_cmp(a, b) ==
    memcmp(ReqBytes(a), ReqBytes(b), Len(ReqBytes(a)))

(* ------------------------------ GL driver ----------------------------- *)
\* Every cached program keeps three names: its own and its two shaders',
\* which stay attached (flagged for deletion) until the program goes.
NameLimit == 3 * MaxEntries + MaxLeaks
Names == 1..NameLimit

NoObject == [kind |-> "none", flagged |-> FALSE, attached |-> {}]

FreeNames(gl) == {n \in Names : gl[n].kind = "none"}
LiveNames(gl) == Names \ FreeNames(gl)

Min(S) == CHOOSE x \in S : \A y \in S : x <= y

\* One driver call, as a mock driver would record it.
Call(fn, obj, arg, name, src) ==
    [fn |-> fn, obj |-> obj, arg |-> arg, name |-> name, src |-> src]

\* One message handed to the log.
Msg(fn, fmt, args) == [fn |-> fn, fmt |-> fmt, args |-> args]

\* A context threads the driver objects, the driver calls and the log
\* through the statements of one operation.
Ctx(gl) == [gl |-> gl, calls |-> <<>>, log |-> <<>>]

Did(c, call) == [c EXCEPT !.calls = Append(@, call)]
Logged(c, m) == [c EXCEPT !.log = Append(@, m)]

\* glCreateShader / glCreateProgram: the driver hands out an unused name.
glCreate(c, kind, fn) ==
    LET n == Min(FreeNames(c.gl))
    IN [name |-> n,
        c |-> Did([c EXCEPT !.gl[n] = [kind |-> kind, flagged |-> FALSE,
                                         attached |-> {}]],
                  Call(fn, n, 0, "", <<>>))]

glAttachShader(c, p, s) ==
    Did([c EXCEPT !.gl[p].attached = @ \cup {s}],
        Call("glAttachShader", p, s, "", <<>>))

IsAttached(gl, s) == \E p \in Names : s \in gl[p].attached

\* glDeleteShader: 0 is ignored; an attached shader is only flagged.
glDeleteShader(c, s) ==
    LET gl2 == IF s = GL_NONE THEN c.gl
               ELSE IF IsAttached(c.gl, s)
                    THEN [c.gl EXCEPT ![s].flagged = TRUE]
                    ELSE [c.gl EXCEPT ![s] = NoObject]
    IN Did([c EXCEPT !.gl = gl2], Call("glDeleteShader", s, 0, "", <<>>))

\* glDeleteProgram: frees the program, detaches its shaders and frees the
\* ones flagged for deletion.
glDeleteProgram(c, p) ==
    LET gl2 == IF p = GL_NONE THEN c.gl
               ELSE [n \in Names |->
                       IF n = p THEN NoObject
                       ELSE IF n \in c.gl[p].attached /\ c.gl[n].flagged
                            THEN NoObject
                            ELSE c.gl[n]]
    IN Did([c EXCEPT !.gl = gl2], Call("glDeleteProgram", p, 0, "", <<>>))

\* A driver call that changes no object.
glCall(c, fn, obj, name, src) == Did(c, Call(fn, obj, 0, name, src))

\* The location the driver gives a uniform of a linked program, -1 for a
\* uniform the program does not use: the driver's answer, fixed per program.
UniformLocation(p, name) ==
    IF p % 2 = 0
    THEN CASE name = "proj" -> 0 [] name = "tex" -> 1 [] name = "tex1" -> 2
           [] name = "tex2" -> 3 [] name = "alpha" -> 4 [] OTHER -> -1
    ELSE CASE name = "proj" -> 0 [] name = "tex" -> 2 [] name = "alpha" -> 1
           [] name = "unicolor" -> 3 [] OTHER -> -1

glGetUniformLocation(c, p, name) ==
    [loc |-> UniformLocation(p, name),
     c |-> Did(c, Call("glGetUniformLocation", p, UniformLocation(p, name), name, <<>>))]

\* What the driver and the allocator do to one creation attempt: the first
\* step that fails, "none" when all succeed.
Stages == {"none", "zalloc", "vertex", "asprintf", "fragment", "link"}

(* ---------------------------- compile_shader -------------------------- *)
\* A failed compilation is not reported to the log.
compile_shader_quiet(c, type, sources, ok) ==
    LET cr == glCreate(c, "shader", "glCreateShader")
        s == cr.name
        c1 == glCall(cr.c, "glShaderSource", s, type, sources)
        c2 == glCall(c1, "glCompileShader", s, type, <<>>)
        c3 == glCall(c2, "glGetShaderiv", s, "GL_COMPILE_STATUS", <<>>)
    IN [s |-> IF ok THEN s ELSE GL_NONE, c |-> c3]

\* Returns the shader name (GL_NONE on failure) and the context after it.
compile_shader(c, type, sources, ok) ==
    LET cr == glCreate(c, "shader", "glCreateShader")
        s == cr.name
        c1 == glCall(cr.c, "glShaderSource", s, type, sources)
        c2 == glCall(c1, "glCompileShader", s, type, <<>>)
        c3 == glCall(c2, "glGetShaderiv", s, "GL_COMPILE_STATUS", <<>>)
    IN IF ~ok
       THEN LET c4 == glCall(c3, "glGetShaderInfoLog", s, "", <<>>)
                c5 == Logged(c4, Msg("weston_log", "shader info: %s\n", <<InfoLog>>))
                c6 == Logged(c5, Msg("weston_log", "shader source:\n", <<>>))
                c7 == Logged(c6, Msg("dump_program_with_line_numbers", "", sources))
            IN [s |-> GL_NONE, c |-> c7]
       ELSE [s |-> s, c |-> c3]

(* --------------------------- struct gl_shader ------------------------- *)
\* zalloc(sizeof *shader): every field zero. addr is the address of the
\* struct, what a caller holds as the struct gl_shader pointer.
ZeroShader ==
    [addr |-> NULL, key |-> [variant |-> 0, green_tint |-> FALSE],
     vertex_shader |-> GL_NONE, fragment_shader |-> GL_NONE, program |-> GL_NONE,
     proj_uniform |-> 0, tex_uniforms |-> <<0, 0, 0>>, alpha_uniform |-> 0,
     color_uniform |-> 0, last_used |-> 0]

Addrs(list) == {list[i].addr : i \in 1..Len(list)}

\* The allocator returns an address no live struct has, or NULL.
zalloc(list, ok) ==
    IF ok THEN Min({a \in 1..(Len(list) + 1) : a \notin Addrs(list)}) ELSE NULL

\* The list head is set up anew around the shader: what was listed is lost.
wl_list_insert_alone(list, shader) == <<shader>>

\* wl_list_insert(&gr->shader_list, &shader->link): at the head of the list.
wl_list_insert(list, shader) == <<shader>> \o list

\* wl_list_remove(&shader->link)
wl_list_remove(list, shader) == SelectSeq(list, LAMBDA e : e.addr # shader.addr)

\* What one operation hands back: its return value, the list and the driver
\* objects after it, the driver calls it made and what it logged.
Result(ret, list, c) ==
    [ret |-> ret, list |-> list, gl |-> c.gl, calls |-> c.calls, log |-> c.log]

(* --------------------------- gl_shader_create ------------------------- *)
\* error_vertex: free(conf); free(shader); return NULL;
error_vertex(list, c) == Result(NULL, list, c)

\* The vertex shader is not deleted on the way out.
error_fragment_leaks(list, c, shader) == error_vertex(list, c)

\* The struct was linked into the list early and is left there.
error_fragment_linked(list, c, shader) ==
    error_vertex(wl_list_insert(list, shader), glDeleteShader(c, shader.vertex_shader))

\* error_fragment: glDeleteShader(shader->vertex_shader); then error_vertex
error_fragment(list, c, shader) ==
    error_vertex(list, glDeleteShader(c, shader.vertex_shader))

\* error_link: glDeleteProgram; glDeleteShader(fragment); then error_fragment
error_link(list, c, shader) ==
    error_fragment(list,
                   glDeleteShader(glDeleteProgram(c, shader.program),
                                  shader.fragment_shader),
                   shader)

\* The statements from glCreateProgram to the return (lines 1646-1675).
link_program(list, c, shader, fail) ==
    LET cr == glCreate(c, "program", "glCreateProgram")
        sh == [shader EXCEPT !.program = cr.name]
        p == sh.program
        c1 == glAttachShader(cr.c, p, sh.vertex_shader)
        c2 == glAttachShader(c1, p, sh.fragment_shader)
        c3 == glCall(c2, "glBindAttribLocation", p, "position", <<>>)
        c4 == glCall(c3, "glBindAttribLocation", p, "texcoord", <<>>)
        c5 == glCall(c4, "glLinkProgram", p, "", <<>>)
        c6 == glCall(c5, "glGetProgramiv", p, "GL_LINK_STATUS", <<>>)
    IN IF fail = "link"
       THEN LET c7 == glCall(c6, "glGetProgramInfoLog", p, "", <<>>)
                c8 == Logged(c7, Msg("weston_log", "link info: %s\n", <<InfoLog>>))
            IN error_link(list, c8, sh)
       ELSE LET d1 == glDeleteShader(c6, sh.vertex_shader)
                d2 == glDeleteShader(d1, sh.fragment_shader)
                u1 == glGetUniformLocation(d2, p, "proj")
                u2 == glGetUniformLocation(u1.c, p, "tex")
                u3 == glGetUniformLocation(u2.c, p, "tex1")
                u4 == glGetUniformLocation(u3.c, p, "tex2")
                u5 == glGetUniformLocation(u4.c, p, "alpha")
                u6 == glGetUniformLocation(u5.c, p, "unicolor")
                done == [sh EXCEPT !.proj_uniform = u1.loc,
                                   !.tex_uniforms = <<u2.loc, u3.loc, u4.loc>>,
                                   !.alpha_uniform = u5.loc,
                                   !.color_uniform = u6.loc]
            IN Result(done.addr, wl_list_insert(list, done), u6.c)

\* The key is not copied: it stays as zalloc left it.
init_shader_nokey(p, requirements) == [ZeroShader EXCEPT !.addr = p]

\* wl_list_init(&shader->link); shader->key = *requirements;
init_shader(p, requirements) ==
    [ZeroShader EXCEPT !.addr = p, !.key = requirements]

gl_shader_create(list, gl, requirements, verbose, fail) ==
    LET p == zalloc(list, fail # "zalloc")
        c0 == Ctx(gl)
    IN IF p = NULL
       THEN error_vertex(list, Logged(c0, Msg("weston_log", "could not create shader\n", <<>>)))
       ELSE
       LET sh0 == init_shader(p, requirements)
           c1 == IF verbose
                 THEN Logged(c0, Msg("weston_log_scope_printf",
                                     "Compiling shader program for: %s\n",
                                     <<create_shader_description_string(requirements)>>))
                 ELSE c0
           v == compile_shader(c1, "GL_VERTEX_SHADER", <<vertex_shader>>,
                               fail # "vertex")
           sh1 == [sh0 EXCEPT !.vertex_shader = v.s]
       IN IF sh1.vertex_shader = GL_NONE THEN error_vertex(list, v.c)
          ELSE IF fail = "asprintf" THEN error_fragment(list, v.c, sh1)
          ELSE
          LET conf == create_shader_config_string(sh1.key)
              f == compile_shader(v.c, "GL_FRAGMENT_SHADER",
                                  <<"#version 100\n", conf, fragment_shader>>,
                                  fail # "fragment")
              sh2 == [sh1 EXCEPT !.fragment_shader = f.s]
          IN IF sh2.fragment_shader = GL_NONE THEN error_fragment(list, f.c, sh2)
             ELSE link_program(list, f.c, sh2, fail)

(* --------------------------- gl_shader_destroy ------------------------ *)
\* The program is not deleted.
gl_shader_destroy_keeps(list, c, shader, verbose) ==
    Result(NULL, wl_list_remove(list, shader), c)

\* The program is deleted and the shader stays on the list.
gl_shader_destroy_listed(list, c, shader, verbose) ==
    Result(NULL, list, glDeleteProgram(c, shader.program))

\* The first shader of the list is taken instead of the one handed in.
gl_shader_destroy_first(list, c, shader, verbose) ==
    Result(NULL, Tail(list), glDeleteProgram(c, Head(list).program))

gl_shader_destroy(list, c, shader, verbose) ==
    LET c1 == IF verbose
              THEN Logged(c, Msg("weston_log_scope_printf",
                                 "Deleting shader program for: %s\n",
                                 <<create_shader_description_string(shader.key)>>))
              ELSE c
        c2 == glDeleteProgram(c1, shader.program)
    IN Result(NULL, wl_list_remove(list, shader), c2)

(* ----------------------- lookup before creation ----------------------- *)
\* The first shader of the list whose key compares equal, 0 when none does.
RECURSIVE find_shader(_, _, _)
find_shader(list, req, i) ==
    IF i > Len(list) THEN 0
    ELSE IF gl_shader_requirements_cmp(req, list[i].key) = 0 THEN i
    ELSE find_shader(list, req, i + 1)

\* get_or_create: an exact-match lookup, and gl_shader_create on a miss.
get_or_create(list, gl, requirements, verbose, fail) ==
    LET i == find_shader(list, requirements, 1)
    IN IF i # 0 THEN Result(list[i].addr, list, Ctx(gl))
       ELSE gl_shader_create(list, gl, requirements, verbose, fail)

\* destroy_all: gl_shader_destroy on every shader of the list, head first.
RECURSIVE destroy_all(_, _, _)
destroy_all(list, c, verbose) ==
    IF list = <<>> THEN Result(NULL, list, c)
    ELSE LET r == gl_shader_destroy(list, c, Head(list), verbose)
         IN destroy_all(r.list,
                        [gl |-> r.gl, calls |-> r.calls, log |-> r.log],
                        verbose)

(* ------------------ gl_shader_scope_new_subscription ------------------ *)
\* The clock and the time stamps count units of 2^30 milliseconds (12.4
\* days), so that the range of a 32 bit int, -2^31 .. 2^31 - 1 milliseconds,
\* is -IntRange .. IntRange - 1 units.
IntRange == 2

\* The value an int takes from a 64 bit difference: the low 32 bits.
ToInt(x) == ((x + IntRange) % (2 * IntRange)) - IntRange

\* timespec_sub_to_msec(&now, &shader->last_used): a 64 bit difference.
timespec_sub_to_msec(a, b) == a - b

dump_header ==
    <<Msg("weston_log_subscription_printf",
          "Vertex shader body:\n%s\n%s\nFragment shader body:\n%s\n%s\n%s\n",
          <<"<bar>", vertex_shader, "<bar>", fragment_shader, "<bar>">>),
      Msg("weston_log_subscription_printf",
          "Cached GLSL programs:\n    id: (used secs ago) description +/-flags\n",
          <<>>)>>

\* One line of the report: "%6u: (%.1f) %s\n".
dump_line(shader, clock) ==
    [program |-> shader.program,
     msecs |-> ToInt(timespec_sub_to_msec(clock, shader.last_used)),
     desc |-> create_shader_description_string(shader.key)]

RECURSIVE dump_lines(_, _)
dump_lines(list, clock) ==
    IF list = <<>> THEN <<>>
    ELSE <<dump_line(Head(list), clock)>> \o dump_lines(Tail(list), clock)

\* The walk stamps every shader as used at the time of the report.
dump_walk_stamps(list, clock) ==
    [i \in 1..Len(list) |-> [list[i] EXCEPT !.last_used = clock]]

\* wl_list_for_each(shader, &gr->shader_list, link): the list after the
\* walk. The loop body reads the shader and writes none of its fields.
dump_walk(list, clock) == list

\* The count starts at one instead of zero.
gl_shader_scope_new_subscription_count1(list, clock) ==
    [header |-> dump_header,
     records |-> dump_lines(list, clock),
     total |-> "Total: " \o ToString(Len(list) + 1) \o " programs.\n"]

\* The report: the header, one record per shader of the list, the total.
gl_shader_scope_new_subscription(list, clock) ==
    LET lines == dump_lines(list, clock)
        count == Len(lines)
    IN [header |-> dump_header,
        records |-> lines,
        total |-> "Total: " \o ToString(count) \o " programs.\n"]

(* ----------------------------- the program ---------------------------- *)
VARIABLES
    shader_list,   \* gr->shader_list, head first
    gl,            \* the driver's objects, by name
    now,           \* the presentation clock, in units of 2^30 milliseconds
    last           \* the call that has just returned and what it gave

vars == <<shader_list, gl, now, last>>

NoDump == [header |-> <<>>, records |-> <<>>, total |-> ""]
NoReq == [variant |-> SHADER_VARIANT_NONE, green_tint |-> FALSE]
Nothing == [ret |-> NULL, calls |-> <<>>, log |-> <<>>]

\* op: the operation; req, shader: its arguments; fail: the step of the
\* attempt that failed; after: what the call followed at once ("idle" when
\* the caller had taken the previous result); then what the call gave.
Last(op, req, shader, fail, after, r, out) ==
    [op |-> op, req |-> req, shader |-> shader, fail |-> fail, after |-> after,
     ret |-> r.ret, calls |-> r.calls, log |-> r.log, out |-> out]

Idle == Last("idle", NoReq, NULL, "none", "idle", Nothing, NoDump)

Init ==
    /\ shader_list = <<>>
    /\ gl = [n \in Names |-> NoObject]
    /\ now = 0
    /\ last = Idle

\* The names held by the shaders of the list: each program and what is
\* attached to it.
OwnedNames(list, g) ==
    UNION {{list[i].program} \cup g[list[i].program].attached : i \in 1..Len(list)}

\* The driver objects no shader of the list holds any more.
Leaked(list, g) == LiveNames(g) \ OwnedNames(list, g)

\* What a call follows: nothing, or at once a call whose result is in last.
After ==
    CASE last.op = "get_or_create" /\ last.ret = NULL -> "get_failed"
      [] last.op = "get_or_create" /\ last.ret # NULL -> "get_ok"
      [] OTHER -> last.op

\* The renderer asks for the program of a key: when idle, or again for the
\* key it has just asked for.
GetOrCreate(req, verbose, fail) ==
    LET hit == find_shader(shader_list, req, 1) # 0
        r == get_or_create(shader_list, gl, req, verbose, fail)
    IN /\ last.op = "idle" \/ (last.op = "get_or_create" /\ last.req = req)
       /\ hit \/ (/\ Len(shader_list) < MaxEntries
                  /\ Cardinality(Leaked(shader_list, gl)) < MaxLeaks)
       /\ shader_list' = r.list
       /\ gl' = r.gl
       /\ last' = Last("get_or_create", req, NULL, IF hit THEN "none" ELSE fail,
                       After, r, NoDump)
       /\ UNCHANGED now

\* gl_shader_destroy on one shader of the list.
Destroy(i, verbose) ==
    LET r == gl_shader_destroy(shader_list, Ctx(gl), shader_list[i], verbose)
    IN /\ last.op = "idle"
       /\ shader_list' = r.list
       /\ gl' = r.gl
       /\ last' = Last("gl_shader_destroy", shader_list[i].key, shader_list[i].addr,
                       "none", After, r, NoDump)
       /\ UNCHANGED now

\* The renderer goes away: every shader is destroyed.
DestroyAll(verbose) ==
    LET r == destroy_all(shader_list, Ctx(gl), verbose)
    IN /\ last.op = "idle"
       /\ shader_list' = r.list
       /\ gl' = r.gl
       /\ last' = Last("destroy_all", NoReq, NULL, "none", After, r, NoDump)
       /\ UNCHANGED now

\* A subscriber joins the shader scope and gets the report: at any idle
\* moment, or right after destroy_all.
Dump ==
    /\ last.op \in {"idle", "destroy_all"}
    /\ last' = Last("dump", NoReq, NULL, "none", After, Nothing,
                    gl_shader_scope_new_subscription(shader_list, now))
    /\ shader_list' = dump_walk(shader_list, now)
    /\ UNCHANGED <<gl, now>>

\* The caller takes the result of the call and goes on.
Return ==
    /\ last.op # "idle"
    /\ last' = Idle
    /\ UNCHANGED <<shader_list, gl, now>>

Next ==
    \/ \E req \in ReqPool, verbose \in BOOLEAN, fail \in Stages :
          GetOrCreate(req, verbose, fail)
    \/ \E i \in 1..Len(shader_list), verbose \in BOOLEAN : Destroy(i, verbose)
    \/ \E verbose \in BOOLEAN : DestroyAll(verbose)
    \/ Dump
    \/ Return

Spec == Init /\ [][Next]_vars

(* ------------------------ the cache and the clock --------------------- *)
\* The renderer binds a cached program for a draw and stamps it as used.
Use(i) ==
    /\ last.op = "idle"
    /\ shader_list' = [shader_list EXCEPT ![i].last_used = now]
    /\ last' = Last("use", shader_list[i].key, shader_list[i].addr, "none", After,
                    Nothing, NoDump)
    /\ UNCHANGED <<gl, now>>

\* The presentation clock advances between two calls.
Tick ==
    /\ last.op = "idle"
    /\ now < MaxClock
    /\ now' = now + 1
    /\ UNCHANGED <<shader_list, gl, last>>

\* The cache over time, with a driver that compiles and links everything.
NextClock ==
    \/ \E req \in ReqPool : GetOrCreate(req, FALSE, "none")
    \/ \E i \in 1..Len(shader_list) : Use(i)
    \/ \E i \in 1..Len(shader_list) : Destroy(i, FALSE)
    \/ DestroyAll(FALSE)
    \/ Tick
    \/ Dump
    \/ Return

SpecClock == Init /\ [][NextClock]_vars

(* ------------------- the functions of a key, alone -------------------- *)
\* Two keys are picked, any two of all there are, and one of the functions
\* of a key is applied to them; last holds the keys and the answers.
InitKeys ==
    /\ shader_list = <<>>
    /\ gl = [n \in Names |-> NoObject]
    /\ now = 0
    /\ last \in {[op |-> "keys", a |-> a, b |-> b] : a, b \in Requirements}

Describe ==
    /\ last.op = "keys"
    /\ last' = [op |-> "describe", a |-> last.a, b |-> last.b,
                name |-> gl_shader_texture_variant_to_string(last.a.variant),
                da |-> create_shader_description_string(last.a),
                db |-> create_shader_description_string(last.b)]
    /\ UNCHANGED <<shader_list, gl, now>>

Configure ==
    /\ last.op = "keys"
    /\ last' = [op |-> "configure", a |-> last.a, b |-> last.b,
                ca |-> create_shader_config_string(last.a),
                cb |-> create_shader_config_string(last.b)]
    /\ UNCHANGED <<shader_list, gl, now>>

Compare ==
    /\ last.op = "keys"
    /\ last' = [op |-> "compare", a |-> last.a, b |-> last.b,
                ab |-> gl_shader_requirements_cmp(last.a, last.b),
                ba |-> gl_shader_requirements_cmp(last.b, last.a),
                aa |-> gl_shader_requirements_cmp(last.a, last.a)]
    /\ UNCHANGED <<shader_list, gl, now>>

NextKeys == Describe \/ Configure \/ Compare

SpecKeys == InitKeys /\ [][NextKeys]_vars

(* ------------------- the image client and its buffers ----------------- *)
\* #define NUM_BUFFERS 1
NUM_BUFFERS == 1
Buffers == 1..NUM_BUFFERS

\* The busy flag is not looked at: the first buffer is taken.
image_next_buffer_any(busy) == 1

\* The first buffer whose busy flag is 0, NULL when there is none.
image_next_buffer(busy) ==
    IF \A i \in Buffers : busy[i] # 0 THEN NULL
    ELSE Min({i \in Buffers : busy[i] = 0})

\* What one run of redraw_handler did: the buffer it took (NULL when it
\* took none), and whether it filled it, attached it, committed it, and
\* whether it scheduled another redraw.
Drew(buffer, filled, committed, scheduled) ==
    [buffer |-> buffer, filled |-> filled, attached |-> committed,
     committed |-> committed, scheduled |-> scheduled]

NoDraw == Drew(NULL, FALSE, FALSE, FALSE)

\* The client: the busy flag of each buffer; what the compositor does with
\* each buffer ("free": nothing, "held": it was committed and is in use,
\* "released": the release event is on its way); whether a redraw is
\* scheduled; the commits made so far; what the last handler was and did.
Client(op, busy, wl, redraw, commits, did) ==
    [op |-> op, busy |-> busy, wl |-> wl, redraw |-> redraw,
     commits |-> commits, did |-> did]

\* image_create: xzalloc clears every busy flag, the buffers are created,
\* the first redraw is scheduled with the resize.
InitImage ==
    /\ shader_list = <<>>
    /\ gl = [n \in Names |-> NoObject]
    /\ now = 0
    /\ last = Client("image_create", [i \in Buffers |-> 0],
                     [i \in Buffers |-> "free"], TRUE, 0, NoDraw)

\* redraw_handler; map_ok is what buffer->dev->map_bo returns.
redraw_handler(s, map_ok) ==
    LET buffer == image_next_buffer(s.busy)
    IN IF buffer = NULL
       THEN Client("redraw_handler", s.busy, s.wl, TRUE, s.commits,
                   Drew(NULL, FALSE, FALSE, TRUE))
       ELSE IF ~map_ok
       THEN Client("redraw_handler", s.busy, s.wl, FALSE, s.commits,
                   Drew(buffer, FALSE, FALSE, FALSE))
       ELSE Client("redraw_handler",
                   [s.busy EXCEPT ![buffer] = 1],
                   [s.wl EXCEPT ![buffer] = "held"],
                   FALSE, s.commits + 1,
                   Drew(buffer, TRUE, TRUE, FALSE))

\* buffer_release: mybuf->busy = 0
buffer_release(s, i) ==
    Client("buffer_release", [s.busy EXCEPT ![i] = 0],
           [s.wl EXCEPT ![i] = "free"], s.redraw, s.commits, Drew(i, FALSE, FALSE, FALSE))

\* keyboard_focus_handler: window_schedule_redraw(app->window)
keyboard_focus_handler(s) ==
    Client("keyboard_focus_handler", s.busy, s.wl, TRUE, s.commits, NoDraw)

\* The keyboard focus comes to the window or leaves it.
Focus ==
    /\ last.op # "keyboard_focus_handler"
    /\ last' = keyboard_focus_handler(last)
    /\ UNCHANGED <<shader_list, gl, now>>

\* The toolkit runs the redraw handler for a scheduled redraw.
Redraw(map_ok) ==
    /\ last.redraw
    /\ last.commits < MaxCommits
    /\ last' = redraw_handler(last, map_ok)
    /\ UNCHANGED <<shader_list, gl, now>>

\* The compositor is done with a buffer it holds and sends the release.
SendRelease(i) ==
    /\ last.wl[i] = "held"
    /\ last' = Client("wl_buffer.release", last.busy,
                      [last.wl EXCEPT ![i] = "released"], last.redraw,
                      last.commits, Drew(i, FALSE, FALSE, FALSE))
    /\ UNCHANGED <<shader_list, gl, now>>

\* The release event reaches the client's listener.
Release(i) ==
    /\ last.wl[i] = "released"
    /\ last' = buffer_release(last, i)
    /\ UNCHANGED <<shader_list, gl, now>>

NextImage ==
    \/ \E map_ok \in BOOLEAN : Redraw(map_ok)
    \/ \E i \in Buffers : SendRelease(i)
    \/ \E i \in Buffers : Release(i)
    \/ Focus

SpecImage == InitImage /\ [][NextImage]_vars

(* ------------------------- create_dmabuf_buffer ----------------------- *)
\* What the system does to one call: whether the build has
\* HAVE_LIBDRM_INTEL, whether open() gives a descriptor, the driver name
\* drmGetVersion reports, whether drm_intel_bufmgr_gem_init gives a buffer
\* manager, what drm_intel_bo_alloc_tiled gives (a linear buffer object,
\* none, a tiled one) and what the export to a dmabuf gives (a descriptor,
\* an error, or no error and a negative descriptor).
DmabufInputs ==
    [have_intel : BOOLEAN, open_ok : BOOLEAN, driver : {"i915", "other"},
     bufmgr_ok : BOOLEAN, alloc : {"linear", "none", "tiled"},
     export : {"fd", "error", "negative"}]

\* The resources one call can hold: the descriptor of the render node, the
\* struct drm_device and its name, the drmVersion, the buffer manager, the
\* buffer object, the dmabuf descriptor, the params object, the wl_buffer.
\* A context threads what is held and the calls made through the statements.
Holding == [held |-> {}, calls |-> <<>>]

Acquire(c, fn, r) == [held |-> c.held \cup {r}, calls |-> Append(c.calls, fn)]
Dispose(c, fn, r) == [held |-> c.held \ {r}, calls |-> Append(c.calls, fn)]

\* intel_alloc_bo: 1 for a linear buffer object, 0 for none or a tiled one.
intel_alloc_bo(c, in) ==
    IF in.alloc = "none" THEN [ret |-> 0, c |-> c]
    ELSE [ret |-> IF in.alloc = "tiled" THEN 0 ELSE 1,
          c |-> Acquire(c, "drm_intel_bo_alloc_tiled", "intel_bo")]

\* intel_free_bo: drm_intel_bo_unreference(my_buf->intel_bo)
intel_free_bo(c) == Dispose(c, "drm_intel_bo_unreference", "intel_bo")

\* intel_bo_export_to_prime: 0 on success, with the descriptor in dmabuf_fd.
intel_bo_export_to_prime(c, in) ==
    CASE in.export = "fd" ->
           [ret |-> 0, dmabuf_fd |-> 3,
            c |-> Acquire(c, "drm_intel_bo_gem_export_to_prime", "dmabuf_fd")]
      [] in.export = "error" -> [ret |-> -1, dmabuf_fd |-> -1, c |-> c]
      [] OTHER -> [ret |-> 0, dmabuf_fd |-> -1, c |-> c]

\* intel_device_destroy: drm_intel_bufmgr_destroy(my_buf->bufmgr)
intel_device_destroy(c) == Dispose(c, "drm_intel_bufmgr_destroy", "bufmgr")

\* drm_device_destroy: buf->dev->device_destroy(buf); close(buf->drm_fd);
drm_device_destroy(c) == Dispose(intel_device_destroy(c), "close", "drm_fd")

\* drm_device_init: 1 with buf->dev set, 0 with the device struct freed.
drm_device_init(c, in) ==
    LET c1 == Acquire(c, "calloc", "dev")
        c2 == Acquire(c1, "drmGetVersion", "version")
        c3 == Acquire(c2, "strdup", "dev->name")
        undo == Dispose(Dispose(c3, "free", "dev->name"), "free", "dev")
    IN IF in.have_intel /\ in.driver = "i915"
       THEN IF in.bufmgr_ok
            THEN [ret |-> 1, c |-> Acquire(c3, "drm_intel_bufmgr_gem_init", "bufmgr")]
            ELSE [ret |-> 0, c |-> undo]
       ELSE [ret |-> 0, c |-> undo]

\* drm_connect: open("/dev/dri/renderD128"), then drm_device_init.
drm_connect(c, in) ==
    IF ~in.open_ok THEN [ret |-> 0, c |-> c]
    ELSE drm_device_init(Acquire(c, "open", "drm_fd"), in)

\* drm_shutdown: drm_device_destroy(my_buf)
drm_shutdown(c) == drm_device_destroy(c)

\* create_dmabuf_buffer: 0 with the wl_buffer made, -1 on failure.
create_dmabuf_buffer(in) ==
    LET conn == drm_connect(Holding, in)
    IN IF conn.ret = 0 THEN [ret |-> -1, c |-> conn.c]
       ELSE
       LET al == intel_alloc_bo(conn.c, in)
       IN IF al.ret = 0 THEN [ret |-> -1, c |-> drm_shutdown(al.c)]
          ELSE
          LET ex == intel_bo_export_to_prime(al.c, in)
          IN IF ex.ret # 0 \/ ex.dmabuf_fd < 0
             THEN [ret |-> -1, c |-> drm_shutdown(intel_free_bo(ex.c))]
             ELSE [ret |-> 0,
                   c |-> Acquire(Acquire(ex.c, "zwp_linux_dmabuf_v1_create_params",
                                         "params"),
                                 "zwp_linux_buffer_params_v1_create_immed",
                                 "buffer")]

\* One call of create_dmabuf_buffer for a buffer of the image; last holds
\* what the system will do and then what the call gave.
InitDmabuf ==
    /\ shader_list = <<>>
    /\ gl = [n \in Names |-> NoObject]
    /\ now = 0
    /\ last \in {[op |-> "image_create", in |-> in] : in \in DmabufInputs}

CreateDmabuf ==
    LET r == create_dmabuf_buffer(last.in)
    IN /\ last.op = "image_create"
       /\ last' = [op |-> "create_dmabuf_buffer", in |-> last.in, ret |-> r.ret,
                   held |-> r.c.held, calls |-> r.c.calls]
       /\ UNCHANGED <<shader_list, gl, now>>

NextDmabuf == CreateDmabuf

SpecDmabuf == InitDmabuf /\ [][NextDmabuf]_vars

(* ------------------- dump_program_with_line_numbers ------------------- *)
\* A source is a sequence of characters; "\n" is the newline and "x" stands
\* for any other character.
Chars == {"x", "\n"}

RECURSIVE Texts(_)
Texts(n) ==
    IF n = 0 THEN {<<>>}
    ELSE Texts(n - 1) \cup {Append(t, ch) : t \in Texts(n - 1), ch \in Chars}

RECURSIVE SourceLists(_)
SourceLists(n) ==
    IF n = 0 THEN {<<>>}
    ELSE SourceLists(n - 1)
           \cup {Append(l, t) : l \in SourceLists(n - 1), t \in Texts(MaxChars)}

\* The output is a sequence of items: the prefix of a line,
\* fprintf(fp, "%6d: ", line), is one item, and every character is one.
Prefix(line) == [line |-> line, ch |-> ""]
Written(text) == [k \in 1..Len(text) |-> [line |-> 0, ch |-> text[k]]]

\* strchr(cur, '\n'): the place of the first newline of cur, 0 for none.
strchr(cur) ==
    IF \A k \in 1..Len(cur) : cur[k] # "\n" THEN 0
    ELSE Min({k \in 1..Len(cur) : cur[k] = "\n"})

\* The written text, the line counter and the new_line flag.
Stream(out, line, new_line) == [out |-> out, line |-> line, new_line |-> new_line]

\* if (new_line) fprintf(fp, "%6d: ", line++);
number_line(st) ==
    IF st.new_line THEN Stream(Append(st.out, Prefix(st.line)), st.line + 1, st.new_line)
    ELSE st

\* The flag is left set after the rest of a source.
RECURSIVE dump_source_fresh(_, _)
dump_source_fresh(cur, st) ==
    LET delim == strchr(cur)
        st1 == number_line(st)
    IN IF delim # 0
       THEN dump_source_fresh(SubSeq(cur, delim + 1, Len(cur)),
                              Stream(st1.out \o Written(SubSeq(cur, 1, delim)), st1.line, TRUE))
       ELSE Stream(st1.out \o Written(cur), st1.line, TRUE)

\* The body of the for loop for one source: the while loop over its
\* newlines, then what is left of it.
RECURSIVE dump_source(_, _)
dump_source(cur, st) ==
    LET delim == strchr(cur)
        st1 == number_line(st)
    IN IF delim # 0
       THEN dump_source(SubSeq(cur, delim + 1, Len(cur)),
                        Stream(st1.out \o Written(SubSeq(cur, 1, delim)), st1.line, TRUE))
       ELSE Stream(st1.out \o Written(cur), st1.line, FALSE)

RECURSIVE dump_sources(_, _)
dump_sources(sources, st) ==
    IF sources = <<>> THEN st
    ELSE dump_sources(Tail(sources), dump_source(Head(sources), st))

\* What is handed to weston_log_continue; nothing when the memory stream
\* cannot be opened or closed.
dump_program_with_line_numbers(sources, fp_ok) ==
    IF ~fp_ok THEN [logged |-> FALSE, out |-> <<>>]
    ELSE [logged |-> TRUE, out |-> dump_sources(sources, Stream(<<>>, 1, TRUE)).out]

\* compile_shader has sources that did not compile and dumps them.
InitLines ==
    /\ shader_list = <<>>
    /\ gl = [n \in Names |-> NoObject]
    /\ now = 0
    /\ last \in {[op |-> "compile_shader", sources |-> l, fp_ok |-> ok] :
                   l \in SourceLists(MaxSources) \ {<<>>}, ok \in BOOLEAN}

DumpProgram ==
    LET r == dump_program_with_line_numbers(last.sources, last.fp_ok)
    IN /\ last.op = "compile_shader"
       /\ last' = [op |-> "dump_program_with_line_numbers", sources |-> last.sources,
                   fp_ok |-> last.fp_ok, logged |-> r.logged, out |-> r.out]
       /\ UNCHANGED <<shader_list, gl, now>>

NextLines == DumpProgram

SpecLines == InitLines /\ [][NextLines]_vars

(* ------------------------------ properties ---------------------------- *)
\* The driver calls of a sequence whose function is one of fns.
CallsOf(calls, fns) == SelectSeq(calls, LAMBDA k : k.fn \in fns)

\* The objects a sequence of driver calls names.
ObjectsOf(calls) == {calls[i].obj : i \in 1..Len(calls)}

Created(calls) == CallsOf(calls, {"glCreateShader", "glCreateProgram"})
Deleted(calls) ==
    SelectSeq(calls, LAMBDA k : k.fn \in {"glDeleteShader", "glDeleteProgram"}
                                 /\ k.obj # GL_NONE)

\* The messages of a log with the format fmt.
LogOf(log, fmt) == SelectSeq(log, LAMBDA m : m.fmt = fmt)

HasKey(list, req) == \E i \in 1..Len(list) : list[i].key = req

IsGet(l) == l.op = "get_or_create"
FailedGet(l) == IsGet(l) /\ l.fail # "none"

\* C1: in every reachable state no two shaders of the list have equal keys
\* (variant and green_tint).
C1_OnePerKey ==
    \A i, j \in 1..Len(shader_list) :
        i # j => shader_list[i].key # shader_list[j].key

\* C1 witness: the list holds two shaders and a repeated request for a key
\* has just been served.
C1_Witness ==
    /\ Len(shader_list) = 2
    /\ IsGet(last) /\ last.after = "get_ok" /\ last.ret # NULL

\* C2: a request for a key that is cached returns the cached shader itself,
\* leaves the list and the driver objects as they were and makes no driver
\* call at all.
C2_HitIsFree ==
    [][\A i \in 1..Len(shader_list) :
          (IsGet(last') /\ last'.req = shader_list[i].key)
          => /\ last'.ret = shader_list[i].addr
             /\ last'.calls = <<>>
             /\ shader_list' = shader_list
             /\ gl' = gl]_vars

\* C2 witness: get_or_create(R) has succeeded and has at once been called a
\* second time with the same R.
C2_Witness ==
    /\ IsGet(last) /\ last.after = "get_ok"
    /\ HasKey(shader_list, last.req)
    /\ last.calls = <<>>

\* C3: an attempt that fails at any step (allocation, vertex compile,
\* configuration string, fragment compile, link) returns NULL and leaves
\* the list exactly as it was.
C3_FailureInsertsNothing ==
    [][FailedGet(last') => (last'.ret = NULL /\ shader_list' = shader_list)]_vars

\* C3 witness: a fragment compile has failed while a shader was cached.
C3_Witness ==
    /\ FailedGet(last) /\ last.fail = "fragment"
    /\ Len(shader_list) >= 1

\* C4 (as claimed): after an attempt that failed at the vertex compile, the
\* fragment compile or the link, as many driver objects were deleted as
\* were created during it, and none of the created ones is still allocated.
C4_FailureFreesEverything ==
    (FailedGet(last) /\ last.fail \in {"vertex", "fragment", "link"})
    => /\ Len(Deleted(last.calls)) = Len(Created(last.calls))
       /\ ObjectsOf(Created(last.calls)) \cap LiveNames(gl) = {}

\* The shader the attempt compiled first (the vertex shader), the one it
\* compiled second (the fragment shader) and the program it created.
NthCreated(calls, fn, n) == CallsOf(calls, {fn})[n].obj

IsDeletedBy(calls, fn, obj) ==
    /\ \E i \in 1..Len(calls) : calls[i].fn = fn /\ calls[i].obj = obj
    /\ obj \notin LiveNames(gl)

\* C5: a shader object that compiled before a later step failed is deleted
\* before the error is returned: the vertex shader when the configuration
\* string or the fragment compile fails; the vertex shader, the fragment
\* shader and the program when the link fails.
C5_CompiledShadersDeleted ==
    /\ (FailedGet(last) /\ last.fail \in {"asprintf", "fragment", "link"})
       => IsDeletedBy(last.calls, "glDeleteShader",
                      NthCreated(last.calls, "glCreateShader", 1))
    /\ (FailedGet(last) /\ last.fail = "link")
       => /\ IsDeletedBy(last.calls, "glDeleteShader",
                         NthCreated(last.calls, "glCreateShader", 2))
          /\ IsDeletedBy(last.calls, "glDeleteProgram",
                         NthCreated(last.calls, "glCreateProgram", 1))

\* C5 witness: a link has failed after both shaders compiled.
C5_Witness ==
    /\ FailedGet(last) /\ last.fail = "link"
    /\ Len(CallsOf(last.calls, {"glCompileShader"})) = 2

StageErrors == {"vertex", "fragment", "link"}

C8_SuccessInsertsOne ==
    [][/\ (IsGet(last') /\ last'.ret # NULL /\ ~HasKey(shader_list, last'.req))
          => /\ Len(shader_list') = Len(shader_list) + 1
             /\ Head(shader_list').addr = last'.ret
             /\ Head(shader_list').key = last'.req
             /\ Tail(shader_list') = shader_list
       /\ \A i \in 1..Len(shader_list), j \in 1..Len(shader_list') :
             shader_list[i].addr = shader_list'[j].addr
             => shader_list[i].key = shader_list'[j].key]_vars

\* C8 witness: a second shader has just been created.
C8_Witness ==
    /\ IsGet(last) /\ last.ret # NULL /\ last.calls # <<>>
    /\ Len(shader_list) = 2

ProgramsOf(list) == [i \in 1..Len(list) |-> list[i].program]
ObjSeq(calls) == [i \in 1..Len(calls) |-> calls[i].obj]

\* C9: destroy_all on a list of N shaders makes exactly N driver calls, one
\* glDeleteProgram for each cached program, and leaves the list empty; a
\* dump right after it has no record and the total "Total: 0 programs.".
C9_DestroyAll ==
    [][/\ last'.op = "destroy_all"
          => /\ shader_list' = <<>>
             /\ CallsOf(last'.calls, {"glDeleteProgram"}) = last'.calls
             /\ ObjSeq(last'.calls) = ProgramsOf(shader_list)
       /\ (last'.op = "dump" /\ last.op = "destroy_all")
          => /\ last'.out.records = <<>>
             /\ last'.out.total = "Total: 0 programs.\n"]_vars

\* C9 witness: a dump has followed destroy_all.
C9_Witness ==
    last.op = "dump" /\ last.after = "destroy_all" /\ shader_list = <<>>

\* C10: shaders for different keys are separate entries (different structs,
\* different programs), and gl_shader_destroy on one of them deletes its
\* program alone and takes it alone off the list: every other shader stays,
\* field for field, and its program object is untouched.
C10_DestroyOne ==
    [][/\ \A i, j \in 1..Len(shader_list) :
             i # j => /\ shader_list[i].addr # shader_list[j].addr
                      /\ shader_list[i].program # shader_list[j].program
       /\ last'.op = "gl_shader_destroy"
          => \E i \in 1..Len(shader_list) :
                /\ shader_list[i].addr = last'.shader
                /\ ObjSeq(last'.calls) = <<shader_list[i].program>>
                /\ last'.calls[1].fn = "glDeleteProgram"
                /\ shader_list' = [j \in 1..(Len(shader_list) - 1) |->
                                     IF j < i THEN shader_list[j]
                                     ELSE shader_list[j + 1]]
                /\ \A j \in 1..Len(shader_list) \ {i} :
                      /\ gl'[shader_list[j].program] = gl[shader_list[j].program]
                      /\ gl[shader_list[j].program].kind = "program"]_vars

\* C10 witness: one of two shaders has been destroyed and the other is
\* still in the list.
C10_Witness ==
    /\ last.op = "gl_shader_destroy"
    /\ Len(shader_list) = 1
    /\ shader_list[1].key # last.req

\* The shaders of a list that are no longer in another, by address.
Gone(before, after) ==
    {before[i].addr : i \in 1..Len(before)} \ {after[j].addr : j \in 1..Len(after)}

\* C11 (as claimed): a shader leaves the list through destroy_all only: no
\* step takes one shader off the list.
C11_OnlyDestroyAllRemoves ==
    [][Gone(shader_list, shader_list') # {} => last'.op = "destroy_all"]_vars

\* C11 (amended): a shader leaves the list only through an explicit
\* destruction: gl_shader_destroy on that shader, which takes that shader
\* alone off the list, or destroy_all, which takes all; a request or a dump
\* takes none.
C11_OnlyDestroyRemoves ==
    [][Gone(shader_list, shader_list') # {}
       => \/ last'.op = "destroy_all" /\ shader_list' = <<>>
          \/ /\ last'.op = "gl_shader_destroy"
             /\ Gone(shader_list, shader_list') = {last'.shader}]_vars

\* C11 witness: gl_shader_destroy has taken one shader off the list and
\* left another on it.
C11_Witness ==
    /\ last.op = "gl_shader_destroy"
    /\ Len(shader_list) = 1
    /\ shader_list[1].addr # last.shader

\* C12: a dump changes nothing: the list and every field of every shader
\* on it (key, program, uniform locations, last_used) and the driver's
\* objects are after the dump what they were before it.
C12_DumpObserves ==
    [][last'.op = "dump" => (shader_list' = shader_list /\ gl' = gl)]_vars

\* C12 witness: a dump of two shaders, one of them used at an earlier time
\* than the time of the dump.
C12_Witness ==
    /\ last.op = "dump"
    /\ Len(shader_list) = 2
    /\ \E i \in 1..2 : 0 < shader_list[i].last_used /\ shader_list[i].last_used < now

\* The decimal numeral of a count of at most 9 programs.
Digit(n) == <<"0", "1", "2", "3", "4", "5", "6", "7", "8", "9">>[n + 1]

\* The symbol of a variant, as the enum spells it.
VariantSymbol(v) ==
    <<"SHADER_VARIANT_NONE", "SHADER_VARIANT_RGBX", "SHADER_VARIANT_RGBA",
      "SHADER_VARIANT_Y_U_V", "SHADER_VARIANT_Y_UV", "SHADER_VARIANT_Y_XUXV",
      "SHADER_VARIANT_XYUV", "SHADER_VARIANT_SOLID", "SHADER_VARIANT_EXTERNAL">>[v + 1]

\* The description of a key: the symbol, a space, the sign of the tint, "green".
Description(req) ==
    VariantSymbol(req.variant) \o (IF req.green_tint THEN " +green" ELSE " -green")

\* C13: a dump has exactly one record for each shader of the list, in list
\* order, with that shader's program and description, and then the total
\* line, whose count is the number of shaders on the list.
C13_DumpOneRecordEach ==
    last.op = "dump"
    => /\ Len(last.out.records) = Len(shader_list)
       /\ \A i \in 1..Len(shader_list) :
             /\ last.out.records[i].program = shader_list[i].program
             /\ last.out.records[i].desc = Description(shader_list[i].key)
       /\ last.out.total
            = "Total: " \o Digit(Len(shader_list)) \o " programs.\n"

\* C13 witness: a dump of a list of two shaders.
C13_Witness ==
    /\ last.op = "dump"
    /\ Len(shader_list) = 2
    /\ Len(last.out.records) = 2

\* C14: over all 18 keys the description is defined (the variant's name is
\* never "!?!?"), equal keys have equal descriptions and different keys
\* have different descriptions.
C14_DescribeInjective ==
    last.op = "describe"
    => /\ last.name # "!?!?"
       /\ last.a = last.b => last.da = last.db
       /\ last.a # last.b => last.da # last.db

\* C14 witness: two keys that differ in the tint alone have been described.
C14_Witness ==
    /\ last.op = "describe"
    /\ last.a.variant = SHADER_VARIANT_EXTERNAL /\ last.b.variant = SHADER_VARIANT_EXTERNAL
    /\ last.a.green_tint /\ ~last.b.green_tint

\* C15: the description a dump shows for a shader is the symbol of the
\* variant of its key, one space, '+' with the tint and '-' without, then
\* "green"; with the one shader of key {RGBA, no tint} on the list the dump
\* has exactly one record, described "SHADER_VARIANT_RGBA -green".
C15_DumpDescription ==
    last.op = "dump"
    => /\ \A i \in 1..Len(last.out.records) :
             last.out.records[i].desc
               = VariantSymbol(shader_list[i].key.variant) \o " "
                   \o (IF shader_list[i].key.green_tint THEN "+" ELSE "-") \o "green"
       /\ \A r \in Requirements :
             create_shader_description_string(r)
               = VariantSymbol(r.variant) \o " "
                   \o (IF r.green_tint THEN "+" ELSE "-") \o "green"
       /\ (Len(shader_list) = 1
           /\ shader_list[1].key = [variant |-> SHADER_VARIANT_RGBA, green_tint |-> FALSE])
          => /\ Len(last.out.records) = 1
             /\ last.out.records[1].desc = "SHADER_VARIANT_RGBA -green"

\* C15 witness: the dump after the one shader for {RGBA, no tint} was made.
C15_Witness ==
    /\ last.op = "dump"
    /\ Len(shader_list) = 1
    /\ shader_list[1].key = [variant |-> SHADER_VARIANT_RGBA, green_tint |-> FALSE]

\* The configuration block of a key, spelled out.
ConfigBlock(req) ==
    "#define DEF_GREEN_TINT " \o (IF req.green_tint THEN "true" ELSE "false")
      \o "\n#define DEF_VARIANT " \o VariantSymbol(req.variant) \o "\n"

\* The sources the attempt handed to the driver for its fragment shader.
FragmentSources(calls) ==
    SelectSeq(calls, LAMBDA k : k.fn = "glShaderSource" /\ k.name = "GL_FRAGMENT_SHADER")

\* C16: the fragment source handed to the driver for a key is three parts
\* in this order: "#version 100\n", the configuration block of the key
\* (DEF_GREEN_TINT true with the tint and false without, DEF_VARIANT the
\* symbol of the variant), the fixed fragment body; and over all keys the
\* block is the same for equal keys and different for different keys.
C16_FragmentSource ==
    (IsGet(last) /\ FragmentSources(last.calls) # <<>>)
    => /\ Len(FragmentSources(last.calls)) = 1
       /\ FragmentSources(last.calls)[1].src
            = <<"#version 100\n", ConfigBlock(last.req), fragment_shader>>
       /\ \A r \in Requirements :
             /\ create_shader_config_string(r) = ConfigBlock(r)
             /\ (create_shader_config_string(r) = create_shader_config_string(last.req))
                <=> (r = last.req)

\* C16 witness: a fragment shader for a key with the tint has been handed
\* to the driver.
C16_Witness ==
    /\ IsGet(last) /\ FragmentSources(last.calls) # <<>>
    /\ last.req.green_tint

\* C17: the comparison is 0 exactly when the two keys have the same variant
\* and the same tint; keys that agree in one field only compare unequal; a
\* key compares equal to itself; and cmp(a, b) is 0 exactly when cmp(b, a) is.
C17_CmpExact ==
    last.op = "compare"
    => /\ (last.ab = 0)
          <=> (last.a.variant = last.b.variant /\ last.a.green_tint = last.b.green_tint)
       /\ last.aa = 0
       /\ (last.ab = 0) <=> (last.ba = 0)

\* C17 witness: two keys of the same variant and different tints have been
\* compared.
C17_Witness ==
    /\ last.op = "compare"
    /\ last.a.variant = last.b.variant
    /\ last.a.green_tint # last.b.green_tint
    /\ last.ab # 0

\* The delete calls of a sequence name each object once.
DeletedOnce(calls) ==
    \A i, j \in 1..Len(Deleted(calls)) :
        i # j => Deleted(calls)[i].obj # Deleted(calls)[j].obj

\* C18: with a driver that compiles and links everything, what a creation
\* made is released once. The creation deletes its two shaders once each
\* (they stay attached to the program until it goes) and the destruction
\* deletes the program once, which frees all three; so the live driver
\* objects are always the three of each listed shader, none besides, and
\* none at all when every shader has been destroyed.
C18_OneReleasePath ==
    /\ Leaked(shader_list, gl) = {}
    /\ Cardinality(LiveNames(gl)) = 3 * Len(shader_list)
    /\ shader_list = <<>> => LiveNames(gl) = {}
    /\ (IsGet(last) /\ Created(last.calls) # <<>>)
       => /\ DeletedOnce(last.calls)
          /\ ObjSeq(Deleted(last.calls))
               = <<NthCreated(last.calls, "glCreateShader", 1),
                   NthCreated(last.calls, "glCreateShader", 2)>>
    /\ last.op \in {"gl_shader_destroy", "destroy_all"}
       => /\ DeletedOnce(last.calls)
          /\ CallsOf(last.calls, {"glDeleteProgram"}) = last.calls
          /\ \A i \in 1..Len(last.calls) : last.calls[i].obj \notin LiveNames(gl)

\* C18 witness: two shaders were created and both have been destroyed.
C18_Witness ==
    /\ last.op = "destroy_all"
    /\ Len(last.calls) = 2
    /\ LiveNames(gl) = {}

\* C19: a request, hit or miss, successful or failed, takes no shader off
\* the list and changes none that was on it: every shader listed before is
\* listed after, field for field, and its program object is as it was; and
\* the list gets shorter through gl_shader_destroy and destroy_all only.
C19_NoEviction ==
    [][/\ last'.op = "get_or_create"
          => /\ Len(shader_list') >= Len(shader_list)
             /\ \A i \in 1..Len(shader_list) :
                   /\ \E j \in 1..Len(shader_list') : shader_list'[j] = shader_list[i]
                   /\ gl'[shader_list[i].program] = gl[shader_list[i].program]
       /\ Len(shader_list') < Len(shader_list)
          => last'.op \in {"gl_shader_destroy", "destroy_all"}]_vars

\* C19 witness: a shader has been created next to one that was cached.
C19_Witness ==
    /\ IsGet(last) /\ last.ret # NULL /\ Created(last.calls) # <<>>
    /\ Len(shader_list) = 2

\* The program of every shader of the list is a program object the driver
\* has, with its two shaders attached, and no two shaders have the same.
ProgramsLive(list, g) ==
    /\ \A i \in 1..Len(list) :
          /\ list[i].program \in Names
          /\ g[list[i].program].kind = "program"
          /\ g[list[i].program].attached
               = {list[i].vertex_shader, list[i].fragment_shader}
    /\ \A i, j \in 1..Len(list) : i # j => list[i].program # list[j].program

\* C20: the program of every listed shader is live and is held by that
\* shader alone; a shader comes onto the list only from an attempt that
\* linked its program and did not fail; and the program of a listed shader
\* is deleted, or changed at all, only by a destruction that takes that
\* shader off the list.
C20_ProgramsOwned ==
    [][/\ ProgramsLive(shader_list', gl')
       /\ \A j \in 1..Len(shader_list') :
             shader_list'[j].addr \notin Addrs(shader_list)
             => /\ last'.op = "get_or_create" /\ last'.fail = "none"
                /\ \E k \in 1..Len(last'.calls) :
                      /\ last'.calls[k].fn = "glLinkProgram"
                      /\ last'.calls[k].obj = shader_list'[j].program
       /\ \A i \in 1..Len(shader_list) :
             gl'[shader_list[i].program] # gl[shader_list[i].program]
             => /\ last'.op \in {"gl_shader_destroy", "destroy_all"}
                /\ shader_list[i].addr \notin Addrs(shader_list')
                /\ gl'[shader_list[i].program] = NoObject]_vars

\* C20 witness: one of two shaders has been destroyed and the program of
\* the other is live.
C20_Witness ==
    /\ last.op = "gl_shader_destroy"
    /\ Len(shader_list) = 1
    /\ Len(last.calls) = 1
    /\ gl[shader_list[1].program].kind = "program"
    /\ last.calls[1].obj # shader_list[1].program

\* The stage of an attempt a driver call belongs to: 1 the vertex compile,
\* 2 the fragment compile, 3 the link, 4 the uniform locations.
StageOfCall(k, calls) ==
    IF k.fn = "glGetUniformLocation" THEN 4
    ELSE IF k.fn \in {"glCreateProgram", "glAttachShader", "glBindAttribLocation",
                      "glLinkProgram", "glGetProgramiv", "glGetProgramInfoLog"}
    THEN 3
    ELSE IF k.obj = NthCreated(calls, "glCreateShader", 1) THEN 1 ELSE 2

\* The driver calls of an attempt without the deletions.
Forward(calls) ==
    SelectSeq(calls, LAMBDA k : k.fn \notin {"glDeleteShader", "glDeleteProgram"})

HasCall(calls, fn) == CallsOf(calls, {fn}) # <<>>

\* C21: the driver calls of one attempt come in the order vertex compile,
\* fragment compile, link, uniform locations, and a stage is there only if
\* every earlier one succeeded: no fragment source is submitted when the
\* vertex compile (or the configuration string) failed, no program is
\* created or linked when the fragment compile failed, no uniform is
\* resolved and no shader is listed when the link failed; the attempt that
\* fails nowhere runs all of them and lists the shader with the locations
\* the driver gave.
C21_StagesInOrder ==
    (IsGet(last) /\ Created(last.calls) # <<>>)
    => LET calls == last.calls
           fwd == Forward(last.calls)
       IN /\ \A i, j \in 1..Len(fwd) :
                i < j => StageOfCall(fwd[i], calls) <= StageOfCall(fwd[j], calls)
          /\ StageOfCall(fwd[1], calls) = 1
          /\ FragmentSources(calls) # <<>> <=> last.fail \in {"none", "fragment", "link"}
          /\ HasCall(calls, "glCreateProgram") <=> last.fail \in {"none", "link"}
          /\ HasCall(calls, "glLinkProgram") <=> last.fail \in {"none", "link"}
          /\ HasCall(calls, "glGetUniformLocation") <=> last.fail = "none"
          /\ HasKey(shader_list, last.req) <=> last.fail = "none"
          /\ last.fail = "none"
             => /\ Len(CallsOf(calls, {"glGetUniformLocation"})) = 6
                /\ shader_list[1].key = last.req
                /\ shader_list[1].program = NthCreated(calls, "glCreateProgram", 1)
                /\ shader_list[1].proj_uniform
                     = UniformLocation(shader_list[1].program, "proj")
                /\ shader_list[1].color_uniform
                     = UniformLocation(shader_list[1].program, "unicolor")

\* C21 witness: an attempt whose link failed, after both compiles.
C21_Witness ==
    /\ IsGet(last) /\ last.fail = "link"
    /\ HasCall(last.calls, "glLinkProgram")
    /\ Len(CallsOf(last.calls, {"glCreateShader"})) = 2

\* C22 (as claimed): every record of a dump shows the time from the
\* shader's last use to the one clock reading of the dump, so that of two
\* shaders the one used earlier shows at least as much as the other.
C22_DumpElapsed ==
    last.op = "dump"
    => /\ \A i \in 1..Len(shader_list) :
             last.out.records[i].msecs = now - shader_list[i].last_used
       /\ \A i, j \in 1..Len(shader_list) :
             shader_list[i].last_used <= shader_list[j].last_used
             => last.out.records[i].msecs >= last.out.records[j].msecs

\* C23: whatever the order of redraws and releases, redraw_handler takes
\* only a buffer whose busy flag is 0, so it fills, attaches and commits no
\* busy buffer; the buffer it commits is busy afterwards; a busy flag is
\* cleared by buffer_release for that buffer and by nothing else, so a
\* buffer the compositor has not released is busy and is not committed
\* again; and when every buffer is busy the handler fills and commits
\* nothing and schedules another redraw.
C23_BusyNotDrawn ==
    [][/\ last'.op = "redraw_handler"
          => /\ last'.did.buffer # NULL => last.busy[last'.did.buffer] = 0
             /\ last'.did.committed
                => /\ last'.did.filled /\ last'.did.attached
                   /\ last'.busy[last'.did.buffer] = 1
                   /\ last'.commits = last.commits + 1
             /\ ~last'.did.committed => last'.commits = last.commits
             /\ (\A i \in Buffers : last.busy[i] = 1)
                => /\ last'.did = Drew(NULL, FALSE, FALSE, TRUE)
                   /\ last'.redraw
                   /\ last'.busy = last.busy
       /\ \A i \in Buffers :
             /\ (last.busy[i] = 1 /\ last'.busy[i] = 0)
                => last'.op = "buffer_release" /\ last'.did.buffer = i
             /\ last'.wl[i] # "free" => last'.busy[i] = 1]_vars

\* C23 witness: a redraw has run while the release of the only buffer,
\* committed for the second time, was on its way.
C23_Witness ==
    /\ last.op = "redraw_handler"
    /\ last.did.buffer = NULL /\ last.did.scheduled
    /\ \E i \in Buffers : last.wl[i] = "released"
    /\ last.commits = 2

\* The calls of a sequence with the name fn.
Named(calls, fn) == SelectSeq(calls, LAMBDA k : k = fn)

\* C24 (as claimed): when create_dmabuf_buffer returns -1 it holds nothing
\* it acquired: the buffer object is freed exactly when one was allocated,
\* and the descriptor of the render node is closed and the device shut down
\* whenever they were opened, whatever failed: the connection, the
\* allocation or the export.
C24_FailureReleasesAll ==
    (last.op = "create_dmabuf_buffer" /\ last.ret = -1)
    => /\ last.held = {}
       /\ Len(Named(last.calls, "drm_intel_bo_unreference"))
            = Len(Named(last.calls, "drm_intel_bo_alloc_tiled"))
       /\ Len(Named(last.calls, "close")) = Len(Named(last.calls, "open"))

\* The sources put together, one after the other.
RECURSIVE Concat(_)
Concat(sources) ==
    IF sources = <<>> THEN <<>> ELSE Head(sources) \o Concat(Tail(sources))

\* A text with its lines numbered from n: a prefix, then the text up to and
\* with its first newline, then the rest numbered from n + 1.
RECURSIVE Numbered(_, _)
Numbered(text, n) ==
    IF strchr(text) = 0 THEN <<Prefix(n)>> \o Written(text)
    ELSE <<Prefix(n)>> \o Written(SubSeq(text, 1, strchr(text)))
           \o Numbered(SubSeq(text, strchr(text) + 1, Len(text)), n + 1)

Prefixes(out) == SelectSeq(out, LAMBDA o : o.line # 0)
Newlines(text) == Len(SelectSeq(text, LAMBDA ch : ch = "\n"))

\* C25: the dump of one or more sources is the text of the sources put
\* together with its lines numbered: the prefixes are 1, 2, 3, ... in this
\* order, one for each line (one more than there are newlines), each at the
\* start of its line; and it is the dump of the whole text handed in as one
\* source, however the text is cut into sources.
C25_LinesNumbered ==
    (last.op = "dump_program_with_line_numbers" /\ last.logged)
    => LET text == Concat(last.sources)
       IN /\ last.out = Numbered(text, 1)
          /\ Prefixes(last.out) = [n \in 1..(Newlines(text) + 1) |-> Prefix(n)]
          /\ SelectSeq(last.out, LAMBDA o : o.line = 0) = Written(text)
          /\ last.out = dump_program_with_line_numbers(<<text>>, TRUE).out

\* C25 witness: a line that goes on from one source into the next, after a
\* source that ends with a newline.
C25_Witness ==
    /\ last.op = "dump_program_with_line_numbers" /\ last.logged
    /\ last.sources = <<<<"x", "\n">>, <<"x">>, <<"x", "\n">>>>

====
